---- MODULE Spec2Model ----
(***************************************************************************)
(* RCNNTarget.proposal_target_layer (frcnn/rcnn_target.py): labels and     *)
(* bounding-box regression targets for the proposals of one image.         *)
(*                                                                         *)
(* Conventions of the model                                                *)
(*  - numpy arrays are sequences; Python index k is model index k + 1.     *)
(*  - a proposal row is <<batch, x1, y1, x2, y2>>, a ground-truth row is   *)
(*    <<x1, y1, x2, y2, class>> (gt_boxes[:,4] is read at line 105).       *)
(*  - box coordinates are integers; an overlap is the exact fraction       *)
(*    <<intersection, union>> and is compared by cross multiplication.     *)
(*  - a regression target component is a real number written as            *)
(*    [ln |-> FALSE, n, d] for n/d and [ln |-> TRUE, n, d] for log(n/d),   *)
(*    both in lowest terms, log(1) being written as 0/1.                   *)
(*  - labels are float32 in the code but always integer valued.            *)
(*  - numpy's global random state is the variable rng; the generator is a  *)
(*    small linear congruential one, the shuffle is numpy's Fisher-Yates.  *)
(***************************************************************************)
EXTENDS Integers, Sequences, FiniteSets, TLC

\* ------------------------------------------------------------------ bounds
MaxGt == 2           \* most ground-truth boxes in one call
MaxClasses == 2      \* num_classes is drawn from 1 .. MaxClasses
RngMod == 4          \* number of states of the random generator

\* ------------------------------------------------- configuration (__init__)
_foreground_fraction == <<1, 4>>
_batch_size == 64
_foreground_threshold == <<1, 2>>
_background_threshold_high == <<1, 2>>
_background_threshold_low == <<1, 10>>

\* ---------------------------------------------------------------- helpers
Min(a, b) == IF a < b THEN a ELSE b
Max(a, b) == IF a > b THEN a ELSE b
Abs(a) == IF a < 0 THEN -a ELSE a

RECURSIVE Gcd(_, _)
Gcd(a, b) == IF b = 0 THEN a ELSE Gcd(b, a % b)

\* exact real numbers of the regression targets
Real(n, d) ==
    LET g == Gcd(Abs(n), d)
    IN [ln |-> FALSE, n |-> n \div g, d |-> d \div g]
Log(n, d) ==
    LET g == Gcd(n, d)
    IN IF n = d THEN Real(0, 1) ELSE [ln |-> TRUE, n |-> n \div g, d |-> d \div g]
Row4(v) == <<Real(v, 1), Real(v, 1), Real(v, 1), Real(v, 1)>>

\* comparisons of fractions with positive denominators
FLt(a, b) == a[1] * b[2] < b[1] * a[2]
FLe(a, b) == a[1] * b[2] <= b[1] * a[2]
FEq(a, b) == a[1] * b[2] = b[1] * a[2]

\* an array whose entries are computed once, when it is built
Array(f) == f \o <<>>

\* np.where(mask)[0] / np.nonzero(mask)[0]: the indices of the true entries, ascending
Where(mask) ==
    LET m == Array(mask)
    IN SelectSeq([i \in 1..Len(m) |-> i], LAMBDA i : m[i])
Range(s) == {s[i] : i \in 1..Len(s)}
\* np.sum(label >= 1)
count_fg(label) == Cardinality({i \in 1..Len(label) : label[i] >= 1})

\* ---------------------------------------------------- utils (collaborators)
\* bbox_overlaps: IoU of every proposal with every ground-truth box
box_area(b) == (b[3] - b[1] + 1) * (b[4] - b[2] + 1)
iou(p, g) ==
    LET iw == Min(p[3], g[3]) - Max(p[1], g[1]) + 1
        ih == Min(p[4], g[4]) - Max(p[2], g[2]) + 1
    IN IF iw > 0 /\ ih > 0
       THEN <<iw * ih, box_area(p) + box_area(g) - iw * ih>>
       ELSE <<0, 1>>
bbox_overlaps(boxes, query) ==
    Array([p \in 1..Len(boxes) |->
             Array([g \in 1..Len(query) |-> iou(boxes[p], query[g])])])

\* bbox_transform: (dx, dy, dw, dh) from a proposal box to a ground-truth box
encode(p, g) ==
    LET pw == p[3] - p[1] + 1
        ph == p[4] - p[2] + 1
        gw == g[3] - g[1] + 1
        gh == g[4] - g[2] + 1
    IN << Real(2 * (g[1] - p[1]) + (gw - pw), 2 * pw),
          Real(2 * (g[2] - p[2]) + (gh - ph), 2 * ph),
          Log(gw, pw),
          Log(gh, ph) >>
bbox_transform(ex, gt) == Array([k \in 1..Len(ex) |-> encode(ex[k], gt[k])])

\* unmap: data[k] at row inds[k] of an array of count rows, fill elsewhere
unmap(data, count, inds, fill) ==
    LET rows == Range(inds)
    IN Array([i \in 1..count |->
                IF i \in rows
                THEN data[CHOOSE k \in 1..Len(inds) : inds[k] = i]
                ELSE fill])

\* ------------------------------------------------------------- np.random
\* The generator is counter based: the state counts the draws modulo RngMod,
\* and a draw is a fixed scrambling of the state it is taken in.
seed(s) == s % RngMod
rk_skip(st, k) == (st + k) % RngMod
rk_next(st) == rk_skip(st, 1)
rk_random(st) == 101 * st * st + 37 * st + 11
\* rk_interval(max): a draw in 0 .. max
rk_interval(max, st) == rk_random(st) % (max + 1)

\* permutation: Fisher-Yates, for i = n down to 2 swap x[i] with x[j], j drawn in
\* 1 .. i; the swap of position i uses draw number n - i + 1.  Positions lo .. hi
\* are done upper half first, which is the order hi, hi - 1, ..., lo.
RECURSIVE shuffle(_, _, _, _)
shuffle(x, lo, hi, st) ==
    IF lo > hi THEN x
    ELSE IF lo = hi
    THEN LET j == rk_interval(lo - 1, rk_skip(st, Len(x) - lo + 1)) + 1
         IN Array([x EXCEPT ![lo] = x[j], ![j] = x[lo]])
    ELSE LET mid == (lo + hi) \div 2
             upper == shuffle(x, mid + 1, hi, st)
         IN IF Len(upper) = Len(x) THEN shuffle(upper, lo, mid, st) ELSE x

\* np.random.choice(a, size, replace=False): the first size entries of a
\* permutation of a, and the state after its len(a) - 1 draws
choice(a, size, st) ==
    <<SubSeq(shuffle(a, 2, Len(a), st), 1, size),
      IF Len(a) > 1 THEN rk_skip(st, Len(a) - 1) ELSE st>>

\* ------------------------------------------------------------ the inputs
\* the module-level im_shape read at lines 67-68: (rows, columns)
im_shape == <<40, 25>>

GtA == <<0, 0, 9, 9>>
GtB == <<10, 20, 19, 29>>
\* proposal boxes by their overlap with GtA: 1, 1/2, 3/10, 1/10, 0 (it is GtB),
\* and a box that sticks out of the image on the left
Kinds == << <<0, 0, 9, 9>>, <<0, 0, 9, 4>>, <<0, 0, 9, 2>>, <<0, 0, 9, 0>>,
            <<10, 20, 19, 29>>, <<-1, 0, 8, 9>> >>
Patterns == {<<a, b>> : a \in 1..Len(Kinds), b \in 1..Len(Kinds)}

num_fg == (_foreground_fraction[1] * _batch_size) \div _foreground_fraction[2]

\* how often a pattern is repeated: once, enough for more foreground candidates
\* than wanted, enough for more background candidates than wanted as well
Reps == {1, num_fg + 1, _batch_size - num_fg + 1}

\* proposals (num_proposals, 5): the pattern repeated reps times, batch id 0
Proposals(pat, reps) ==
    Array([i \in 1..(Len(pat) * reps) |-> <<0>> \o Kinds[pat[((i - 1) % Len(pat)) + 1]]])

\* gt_boxes (num_gt, 5): n boxes that are all GtA, or alternate starting with GtA,
\* or alternate starting with GtB; the class ids count up from c0 modulo nc
GtLists(nc) ==
    {[i \in 1..n |->
        (CASE scheme = 1 -> GtA
           [] scheme = 2 -> (IF i % 2 = 1 THEN GtA ELSE GtB)
           [] OTHER      -> (IF i % 2 = 1 THEN GtB ELSE GtA))
        \o <<(c0 + i - 1) % nc>>]
     : n \in 0..MaxGt, scheme \in 1..3, c0 \in 0..(nc - 1)}

\* --------------------------------------------------- proposal_target_layer
\* (variant) the generator is not re-seeded
reseed_missing(st) == st

\* np.random.seed(0)
reseed(st) == seed(0)

\* all_proposals = proposals[:,1:]
strip_batch(proposals) ==
    Array([i \in 1..Len(proposals) |-> SubSeq(proposals[i], 2, 5)])

\* inds_inside: the proposals that lie inside the image
inside(all_proposals) ==
    Where([i \in 1..Len(all_proposals) |->
             /\ all_proposals[i][1] >= 0
             /\ all_proposals[i][2] >= 0
             /\ all_proposals[i][3] < im_shape[2]
             /\ all_proposals[i][4] < im_shape[1]])

\* (variant) the last index of the maximum
argmax_last(row) ==
    CHOOSE i \in 1..Len(row) :
        /\ \A j \in 1..Len(row) : FLe(row[j], row[i])
        /\ \A j \in (i + 1)..Len(row) : FLt(row[j], row[i])

\* overlaps.argmax(axis=1) for one row: the first index of the maximum
argmax(row) ==
    CHOOSE i \in 1..Len(row) :
        /\ \A j \in 1..Len(row) : FLe(row[j], row[i])
        /\ \A j \in 1..(i - 1) : FLt(row[j], row[i])

\* (variant) the comment of lines 90-92: background up to and including 0.5
assign_label_comment(max_overlap, gt_class) ==
    IF FLt(_foreground_threshold, max_overlap) THEN gt_class + 1
    ELSE IF FLe(_background_threshold_low, max_overlap)
            /\ FLe(max_overlap, _background_threshold_high) THEN 0
    ELSE -1

\* (variant) the comment of line 107: labels up to num_classes + 1
assign_label_shifted(max_overlap, gt_class) ==
    IF FLe(_foreground_threshold, max_overlap) THEN gt_class + 2
    ELSE IF FLt(_background_threshold_low, max_overlap)
            /\ FLt(max_overlap, _background_threshold_high) THEN 0
    ELSE -1

\* labels -1 / 0 / class + 1 from the maximum overlap (lines 86-105)
assign_label(max_overlap, gt_class) ==
    IF FLe(_foreground_threshold, max_overlap) THEN gt_class + 1
    ELSE IF FLt(_background_threshold_low, max_overlap)
            /\ FLt(max_overlap, _background_threshold_high) THEN 0
    ELSE -1

\* (variant) foreground candidates are only cut down to the batch size
subsample_fg_batch(label, st) ==
    LET fg_inds == Where([i \in 1..Len(label) |-> label[i] >= 1])
    IN IF Len(fg_inds) > _batch_size
       THEN LET c == choice(fg_inds, Len(fg_inds) - _batch_size, st)
                disable_inds == Range(c[1])
            IN <<Array([i \in 1..Len(label) |->
                          IF i \in disable_inds THEN -label[i] ELSE label[i]]), c[2]>>
       ELSE <<label, st>>

\* lines 112-120: negate the labels of the foreground candidates beyond num_fg
subsample_fg(label, st) ==
    LET fg_inds == Where([i \in 1..Len(label) |-> label[i] >= 1])
    IN IF Len(fg_inds) > num_fg
       THEN LET c == choice(fg_inds, Len(fg_inds) - num_fg, st)
                disable_inds == Range(c[1])
            IN <<Array([i \in 1..Len(label) |->
                          IF i \in disable_inds THEN -label[i] ELSE label[i]]), c[2]>>
       ELSE <<label, st>>

\* (variant) num_bg is the batch size minus num_fg, whatever foreground there is
subsample_bg_fixed(label, st) ==
    LET num_bg == _batch_size - num_fg
        bg_inds == Where([i \in 1..Len(label) |-> label[i] = 0])
    IN IF Len(bg_inds) > num_bg
       THEN LET c == choice(bg_inds, Len(bg_inds) - num_bg, st)
                disable_inds == Range(c[1])
            IN <<Array([i \in 1..Len(label) |->
                          IF i \in disable_inds THEN -1 ELSE label[i]]), c[2]>>
       ELSE <<label, st>>

\* lines 129-135: ignore the background candidates beyond num_bg
subsample_bg(label, st) ==
    LET num_bg == _batch_size - count_fg(label)
        bg_inds == Where([i \in 1..Len(label) |-> label[i] = 0])
    IN IF Len(bg_inds) > num_bg
       THEN LET c == choice(bg_inds, Len(bg_inds) - num_bg, st)
                disable_inds == Range(c[1])
            IN <<Array([i \in 1..Len(label) |->
                          IF i \in disable_inds THEN -1 ELSE label[i]]), c[2]>>
       ELSE <<label, st>>

\* (variant) background proposals get a target too
with_target_nonneg(label) == Where([i \in 1..Len(label) |-> label[i] >= 0])

\* line 145: the proposals that get a regression target
with_target(label) == Where([i \in 1..Len(label) |-> label[i] > 0])

\* lines 168-172: targets of the positives -> inside proposals -> all proposals
unmap_targets(targets, n_inside, with_target_idx, n_all, inds_inside) ==
    unmap(unmap(targets, n_inside, with_target_idx, Row4(0)), n_all, inds_inside, Row4(0))

\* (variant) the labels are returned as they are, without the unmap
unmap_labels_skipped(label, n_all, inds_inside) == label

\* lines 174-175: labels of the inside proposals -> all proposals
unmap_labels(label, n_all, inds_inside) == unmap(label, n_all, inds_inside, -1)

NoLocals == [err |-> "NotCalled"]

\* the whole body; on success every local the properties speak about
proposal_target_layer(proposals, gt_boxes, st) ==
    LET st0 == reseed(st)
        all_proposals == strip_batch(proposals)
        inds_inside == inside(all_proposals)
        props == Array([k \in 1..Len(inds_inside) |-> all_proposals[inds_inside[k]]])
        overlaps == bbox_overlaps(props, gt_boxes)
    IN IF Len(gt_boxes) = 0
       \* overlaps.max(axis=1) over an axis of length 0: numpy raises ValueError
       THEN [err |-> "ValueError", rng |-> st0]
       ELSE
       LET best == Array([k \in 1..Len(props) |-> argmax(overlaps[k])])
           max_overlaps == Array([k \in 1..Len(props) |-> overlaps[k][best[k]]])
           label0 == Array([k \in 1..Len(props) |->
                              assign_label(max_overlaps[k], gt_boxes[best[k]][5])])
           fg == subsample_fg(label0, st0)
           bg == subsample_bg(fg[1], fg[2])
           label == bg[1]
           with_target_idx == with_target(label)
           targets == bbox_transform(
                        Array([k \in 1..Len(with_target_idx) |-> props[with_target_idx[k]]]),
                        Array([k \in 1..Len(with_target_idx) |->
                                 gt_boxes[best[with_target_idx[k]]]]))
       IN [err |-> "None", rng |-> bg[2],
           inds_inside |-> inds_inside, max_overlaps |-> max_overlaps, best |-> best,
           label0 |-> label0, label_fg |-> fg[1], label |-> label,
           warned |-> count_fg(label0) < num_fg,
           proposals_label |-> unmap_labels(label, Len(all_proposals), inds_inside),
           bbox_targets |-> unmap_targets(targets, Len(label), with_target_idx,
                                          Len(all_proposals), inds_inside)]

\* ------------------------------------------------------------------ state
VARIABLES
    num_classes,   \* self._num_classes
    rng,           \* numpy's global random state
    pc,            \* "idle" or "returned"
    args,          \* the arguments of the call that returned last
    rng_in,        \* rng when that call started
    loc,           \* its locals, return value and error
    memo           \* an earlier call, kept for comparison: [args, rng_in, loc]

vars == <<num_classes, rng, pc, args, rng_in, loc, memo>>

NoArgs == [proposals |-> <<>>, gt_boxes |-> <<>>]
NoMemo == [args |-> NoArgs, rng_in |-> 0, loc |-> NoLocals]

Init ==
    /\ num_classes \in 1..MaxClasses
    /\ rng = seed(0)
    /\ pc = "idle"
    /\ args = NoArgs
    /\ rng_in = 0
    /\ loc = NoLocals
    /\ memo = NoMemo

\* one call of proposal_target_layer, through tf.py_func
Call(pat, reps, gt_boxes) ==
    /\ pc = "idle"
    /\ LET proposals == Proposals(pat, reps)
           r == proposal_target_layer(proposals, gt_boxes, rng)
       IN /\ args' = [proposals |-> proposals, gt_boxes |-> gt_boxes]
          /\ loc' = r
          /\ rng' = r.rng
    /\ rng_in' = rng
    /\ pc' = "returned"
    /\ UNCHANGED <<num_classes, memo>>

\* the caller takes the result (or the exception); the locals are gone
Return ==
    /\ pc = "returned"
    /\ pc' = "idle"
    /\ args' = NoArgs
    /\ rng_in' = 0
    /\ loc' = NoLocals
    /\ UNCHANGED <<num_classes, rng, memo>>

\* some other code of the process draws from numpy's global random state
OtherDraw ==
    /\ pc = "idle"
    /\ rng' = rk_next(rng)
    /\ UNCHANGED <<num_classes, pc, args, rng_in, loc, memo>>

\* keep the call that just returned, to compare a later one with it
Remember ==
    /\ pc = "returned"
    /\ memo = NoMemo
    /\ memo' = [args |-> args, rng_in |-> rng_in, loc |-> loc]
    /\ UNCHANGED <<num_classes, rng, pc, args, rng_in, loc>>

Next ==
    \/ \E pat \in Patterns, reps \in Reps, gt_boxes \in GtLists(num_classes) :
           Call(pat, reps, gt_boxes)
    \/ Return
    \/ OtherDraw

Spec == Init /\ [][Next]_vars

\* Repeated calls: a few inputs that all make the sampling draw, one earlier call
\* kept in memo, other draws in between.
RepeatPatterns == {<<a, b>> : a \in {1, 3}, b \in {1, 3}}
RepeatGts == {g \in GtLists(num_classes) : Len(g) = 1 /\ SubSeq(g[1], 1, 4) = GtA}

NextRepeat ==
    \/ \E pat \in RepeatPatterns, reps \in Reps \ {1}, gt_boxes \in RepeatGts :
           Call(pat, reps, gt_boxes)
    \/ Return
    \/ OtherDraw
    \/ Remember

SpecRepeat == Init /\ [][NextRepeat]_vars

\* ------------------------------------------------------------- properties
Ok == pc = "returned" /\ loc.err = "None"
N == Len(args.proposals)
Box(i) == SubSeq(args.proposals[i], 2, 5)
InImage(b) == b[1] >= 0 /\ b[2] >= 0 /\ b[3] < im_shape[2] /\ b[4] < im_shape[1]
Zero4 == Row4(0)
Positives(s) == Cardinality({k \in 1..Len(s) : s[k] >= 1})
Zeros(s) == Cardinality({k \in 1..Len(s) : s[k] = 0})
\* the largest overlap of box b with a ground-truth box, and the first box that has it
BestGt(b) ==
    CHOOSE g \in 1..Len(args.gt_boxes) :
        /\ \A h \in 1..Len(args.gt_boxes) : FLe(iou(b, args.gt_boxes[h]), iou(b, args.gt_boxes[g]))
        /\ \A h \in 1..(g - 1) : FLt(iou(b, args.gt_boxes[h]), iou(b, args.gt_boxes[g]))
MaxOverlap(b) == iou(b, args.gt_boxes[BestGt(b)])
\* the label a box gets before the subsampling, from the thresholds
RawLabel(b) ==
    IF FLe(<<1, 2>>, MaxOverlap(b)) THEN args.gt_boxes[BestGt(b)][5] + 1
    ELSE IF FLt(<<1, 10>>, MaxOverlap(b)) THEN 0
    ELSE -1

\* C1: with at least one ground-truth box the call returns N labels and N rows of 4
\* targets, and row i belongs to proposal i: -1 and zeros for a proposal outside the
\* image, else the label of proposal i's own box, kept, negated or set to ignore.
C1_OutputsAligned ==
    (pc = "returned" /\ Len(args.gt_boxes) >= 1) =>
        /\ loc.err = "None"
        /\ Len(loc.proposals_label) = N
        /\ Len(loc.bbox_targets) = N
        /\ \A i \in 1..N :
            /\ Len(loc.bbox_targets[i]) = 4
            /\ IF InImage(Box(i))
               THEN loc.proposals_label[i] \in {RawLabel(Box(i)), -RawLabel(Box(i)), -1}
               ELSE loc.proposals_label[i] = -1 /\ loc.bbox_targets[i] = Zero4
C1_Witness ==
    /\ Ok
    /\ \E i, j \in 1..N : i < j /\ ~InImage(Box(i)) /\ loc.proposals_label[j] >= 1
    /\ \E i \in 1..N : loc.proposals_label[i] < -1
    /\ Len(loc.inds_inside) < N

\* C2: at most floor(foreground fraction * batch size) = 16 returned labels are >= 1,
\* and at most batch size = 64 are >= 0.
C2_BatchLimits ==
    Ok =>
        /\ Positives(loc.proposals_label) <= (1 * 64) \div 4
        /\ Zeros(loc.proposals_label)
             + Positives(loc.proposals_label) <= 64
C2_Witness ==
    /\ Ok
    /\ Positives(loc.label0) > 16
    /\ Zeros(loc.label0) > 48
    /\ Positives(loc.proposals_label) = 16
    /\ Zeros(loc.proposals_label) = 48

\* C3: a proposal whose returned label is <= 0 has the target (0, 0, 0, 0).
C3_ZeroTargets ==
    Ok => \A i \in 1..N :
            loc.proposals_label[i] <= 0 => loc.bbox_targets[i] = Zero4
C3_Witness ==
    /\ Ok
    /\ \E i \in 1..N : /\ loc.proposals_label[i] = 0
                       /\ encode(Box(i), args.gt_boxes[BestGt(Box(i))]) # Zero4
    /\ \E i \in 1..N : /\ loc.proposals_label[i] < 0
                       /\ RawLabel(Box(i)) >= 1
                       /\ InImage(Box(i))
                       /\ encode(Box(i), args.gt_boxes[BestGt(Box(i))]) # Zero4
    /\ \E i \in 1..N : loc.proposals_label[i] > 0 /\ loc.bbox_targets[i] # Zero4

C5_NoGroundTruth ==
    (pc = "returned" /\ Len(args.gt_boxes) = 0) =>
        /\ loc.err = "None"
        /\ \A i \in 1..N : loc.proposals_label[i] = -1 /\ loc.bbox_targets[i] = Zero4

\* C6: with ground-truth class ids in 0 .. num_classes - 1 every returned label is
\* in -num_classes .. num_classes.
C6_LabelRange ==
    (Ok /\ \A g \in 1..Len(args.gt_boxes) : args.gt_boxes[g][5] \in 0..(num_classes - 1)) =>
        \A i \in 1..N : loc.proposals_label[i] \in (-num_classes)..num_classes
C6_Witness ==
    /\ Ok
    /\ num_classes > 1
    /\ \E i \in 1..N : loc.proposals_label[i] = num_classes
    /\ \E i \in 1..N : loc.proposals_label[i] = -num_classes

\* C7: a call with the proposals and ground-truth boxes of an earlier call (the
\* image bounds are fixed) returns the labels and targets of that call, whatever
\* was drawn from the generator in between.
C7_Deterministic ==
    (pc = "returned" /\ memo # NoMemo /\ memo.args = args) =>
        /\ loc.err = memo.loc.err
        /\ loc.err = "None" =>
              /\ loc.proposals_label = memo.loc.proposals_label
              /\ loc.bbox_targets = memo.loc.bbox_targets
C7_Witness ==
    /\ Ok
    /\ memo # NoMemo
    /\ memo.args = args
    /\ memo.rng_in # rng_in
    /\ \E k \in 1..Len(loc.label) : loc.label0[k] >= 1 /\ loc.label[k] < 0
    /\ \E k \in 1..Len(loc.label) : loc.label0[k] = 0 /\ loc.label[k] = -1

\* C8 as claimed: after the subsampling the number of labels == 0 is the batch size
\* minus the number of labels >= 1.
C8_ExactlyBatchSize ==
    Ok => Zeros(loc.label)
            = _batch_size - Positives(loc.label)
\* C8 amended: after the subsampling the number of labels == 0 is the smaller of the
\* number of background candidates and the batch size minus the number of labels
\* >= 1, and every other proposal is ignore or a negated foreground candidate.
C8_AtMostBatchSize ==
    Ok =>
        /\ Zeros(loc.label)
             = Min(Zeros(loc.label0),
                   _batch_size - Positives(loc.label))
        /\ \A k \in 1..Len(loc.label) :
              \/ loc.label[k] = 0 /\ loc.label0[k] = 0
              \/ loc.label[k] >= 1 /\ loc.label0[k] = loc.label[k]
              \/ loc.label[k] = -1 /\ loc.label0[k] \in {-1, 0}
              \/ loc.label[k] = -loc.label0[k] /\ loc.label0[k] >= 1
C8_Witness ==
    /\ Ok
    /\ Positives(loc.label) >= 1
    /\ Positives(loc.label0) > Positives(loc.label)
    /\ Zeros(loc.label0)
          > _batch_size - Positives(loc.label)
    /\ Zeros(loc.label)
          = _batch_size - Positives(loc.label)

\* C9: with more foreground candidates than num_fg exactly the excess is disabled,
\* each by negating its label, and the negated label still names the class and
\* differs from the ignore label -1.
C9_DisabledKeepClass ==
    (Ok /\ Positives(loc.label0) > num_fg) =>
        /\ Cardinality({k \in 1..Len(loc.label0) : loc.label_fg[k] # loc.label0[k]})
             = Positives(loc.label0) - num_fg
        /\ \A k \in 1..Len(loc.label0) :
              loc.label_fg[k] # loc.label0[k] =>
                 /\ loc.label0[k] >= 1
                 /\ loc.label_fg[k] = -(args.gt_boxes[loc.best[k]][5] + 1)
                 /\ loc.label_fg[k] # -1

\* C10: a proposal whose returned label is > 0 has the target encode(its box, the
\* first ground-truth box of maximum overlap with it), and its label is the class
\* of that box + 1.
C10_TargetOfBestGt ==
    Ok => \A i \in 1..N :
            loc.proposals_label[i] > 0 =>
               /\ loc.bbox_targets[i] = encode(Box(i), args.gt_boxes[BestGt(Box(i))])
               /\ loc.proposals_label[i] = args.gt_boxes[BestGt(Box(i))][5] + 1
C10_Witness ==
    /\ Ok
    /\ \E i, j \in 1..N :
          /\ i < j
          /\ ~InImage(Box(i))
          /\ loc.proposals_label[j] > 0
          /\ loc.bbox_targets[j] # Zero4
          /\ \E g, h \in 1..Len(args.gt_boxes) :
                /\ g < h
                /\ args.gt_boxes[g][5] # args.gt_boxes[h][5]
                /\ FEq(iou(Box(j), args.gt_boxes[g]), MaxOverlap(Box(j)))
                /\ FEq(iou(Box(j), args.gt_boxes[h]), MaxOverlap(Box(j)))

====
